---- MODULE Spec2Model ----
(***************************************************************************)
(* Model of plugins/inventory/vm_inventory.py: the Unraid VM inventory     *)
(* plugin.  InventoryModule.parse is modelled as a sequential process      *)
(* whose steps are its external interactions (configuration, SSH connect,  *)
(* remote commands, inventory calls); the text helpers it relies on        *)
(* (str.splitlines, str.split, re.match, re.sub, str.lower, ...) are       *)
(* operators over strings represented as sequences of one-character        *)
(* strings.                                                                *)
(***************************************************************************)
EXTENDS Integers, Sequences, FiniteSets, TLC

VARIABLES
    pc,                   \* position of parse
    hostname, username, password,
    name_pattern, vm_interface_pattern, ansible_user,
    client,               \* SSH session: "none", "open", "closed"
    connect_called,       \* client.connect was called
    list_stdout,          \* text printed by "virsh list --all --name"
    vms,                  \* the local list vms
    i,                    \* position of the loop "for vm in vms"
    queried,              \* VM names for which exec_command(domifaddr) ran
    outcomes,             \* per queried VM: what its iteration ended with
    vms_ips,              \* the dict vms_ips, in insertion order
    k,                    \* position of the loop over vms_ips.items()
    groups, hosts, variables,   \* self.inventory
    add_host_args,        \* identifiers passed to inventory.add_host
    err,                  \* the exception that ended parse, or "none"
    p_pc, p_lines, p_pattern, p_result   \* a call of _parse_virsh_domifaddr

vars == <<pc, hostname, username, password, name_pattern, vm_interface_pattern,
          ansible_user, client, connect_called, list_stdout, vms, i, queried,
          outcomes, vms_ips, k, groups, hosts, variables, add_host_args, err,
          p_pc, p_lines, p_pattern, p_result>>

cfgVars == <<hostname, username, password, name_pattern, vm_interface_pattern,
             ansible_user>>
invVars == <<groups, hosts, variables, add_host_args>>
loopVars == <<vms, i, queried, outcomes, vms_ips>>
parseVars == <<p_pc, p_lines, p_pattern, p_result>>

---------------------------------------------------------------------------
(* Bounds *)

MaxVMs == 2        \* lines printed by the list command
MaxLines == 2      \* lines of an interface report handed to the parser

---------------------------------------------------------------------------
(* Python values: strings are sequences of characters; None is a sentinel. *)

None == <<"<None>">>

Truthy(v) == v # None /\ v # <<>>

UpperSeq == <<"A","B","C","D","E","F","G","H","I","J","K","L","M",
              "N","O","P","Q","R","S","T","U","V","W","X","Y","Z">>
LowerSeq == <<"a","b","c","d","e","f","g","h","i","j","k","l","m",
              "n","o","p","q","r","s","t","u","v","w","x","y","z">>
Digits == {"0","1","2","3","4","5","6","7","8","9"}
Whitespace == {" ", "\t", "\n", "\r"}

Range(s) == {s[j] : j \in DOMAIN s}

\* \w of a str pattern: alphanumeric or underscore
IsWord(c) == c \in Range(UpperSeq) \cup Range(LowerSeq) \cup Digits \cup {"_"}

\* str.lower, one character
LowerChar(c) ==
    IF \E j \in DOMAIN UpperSeq : UpperSeq[j] = c
    THEN LowerSeq[CHOOSE j \in DOMAIN UpperSeq : UpperSeq[j] = c]
    ELSE c

lower(s) == [j \in DOMAIN s |-> LowerChar(s[j])]

\* str.replace(old, new) for one-character old and new
replace(s, old, new) == [j \in DOMAIN s |-> IF s[j] = old THEN new ELSE s[j]]

\* sub in s
Contains(s, sub) ==
    \E j \in 1..(Len(s) - Len(sub) + 1) : SubSeq(s, j, j + Len(sub) - 1) = sub

\* the index of the first character of s in set cs, or Len(s)+1
FirstIn(s, cs) ==
    IF \E j \in DOMAIN s : s[j] \in cs
    THEN CHOOSE j \in DOMAIN s : s[j] \in cs /\ \A h \in 1..(j-1) : s[h] \notin cs
    ELSE Len(s) + 1

\* the index of the first character of s not in set cs, or Len(s)+1
FirstNotIn(s, cs) ==
    IF \E j \in DOMAIN s : s[j] \notin cs
    THEN CHOOSE j \in DOMAIN s : s[j] \notin cs /\ \A h \in 1..(j-1) : s[h] \in cs
    ELSE Len(s) + 1

\* str.splitlines(): lines end at a line break, which is dropped; a final
\* line break starts no further line
RECURSIVE splitlines(_)
splitlines(s) ==
    IF s = <<>> THEN <<>>
    ELSE LET b == FirstIn(s, {"\n"})
         IN  <<SubSeq(s, 1, b - 1)>> \o splitlines(SubSeq(s, b + 1, Len(s)))

\* str.split(): runs of whitespace separate the fields, none is empty
RECURSIVE split(_)
split(s) ==
    LET a == FirstNotIn(s, Whitespace)
        rest == SubSeq(s, a, Len(s))
        b == FirstIn(rest, Whitespace)
    IN  IF rest = <<>> THEN <<>>
        ELSE <<SubSeq(rest, 1, b - 1)>> \o split(SubSeq(rest, b, Len(rest)))

\* str.split(sep)[0]
SplitFirst(s, sep) == SubSeq(s, 1, FirstIn(s, {sep}) - 1)

---------------------------------------------------------------------------
(* Regular expressions: literals, ".", "\w", "\W", each optionally         *)
(* followed by "*" or "+".                                                 *)

RECURSIVE Compile(_)
Compile(p) ==
    IF p = <<>> THEN <<>>
    ELSE LET esc == Head(p) = "\\" /\ Len(p) >= 2
             cls == IF esc THEN (IF p[2] = "w" THEN "word"
                                 ELSE IF p[2] = "W" THEN "nonword" ELSE "lit")
                    ELSE IF Head(p) = "." THEN "any" ELSE "lit"
             ch == IF esc THEN p[2] ELSE Head(p)
             r1 == SubSeq(p, (IF esc THEN 3 ELSE 2), Len(p))
             q == IF r1 # <<>> /\ Head(r1) \in {"*", "+"} THEN Head(r1) ELSE "1"
             r2 == IF q = "1" THEN r1 ELSE Tail(r1)
         IN  <<[cls |-> cls, ch |-> ch, q |-> q]>> \o Compile(r2)

AtomOk(a, c) ==
    CASE a.cls = "any" -> c # "\n"
      [] a.cls = "word" -> IsWord(c)
      [] a.cls = "nonword" -> ~IsWord(c)
      [] OTHER -> c = a.ch

\* the length of the longest prefix of s made of characters atom a accepts
Run(a, s) == FirstNotIn(s, {c \in Range(s) : AtomOk(a, c)}) - 1

\* the lengths n such that the compiled pattern re matches s[1..n]
RECURSIVE MatchLens(_, _)
MatchLens(re, s) ==
    IF re = <<>> THEN {0}
    ELSE LET a == Head(re)
             lo == IF a.q = "*" THEN 0 ELSE 1
             hi == IF a.q = "1" THEN (IF Run(a, s) >= 1 THEN 1 ELSE 0) ELSE Run(a, s)
         IN  UNION { {n + m : m \in MatchLens(Tail(re), SubSeq(s, n + 1, Len(s)))}
                     : n \in lo..hi }

\* bool(re.match(pattern, s)): the pattern matches at the start of s
re_match(pattern, s) == MatchLens(Compile(pattern), s) # {}

\* re.sub(r"\W", "", s)
RECURSIVE sub_nonword(_)
sub_nonword(s) ==
    IF s = <<>> THEN <<>>
    ELSE (IF IsWord(Head(s)) THEN <<Head(s)>> ELSE <<>>) \o sub_nonword(Tail(s))

\* re.sub(r"_+", "_", s)
RECURSIVE sub_underscores(_)
sub_underscores(s) ==
    IF s = <<>> THEN <<>>
    ELSE IF Head(s) = "_"
         THEN <<"_">> \o sub_underscores(SubSeq(s, FirstNotIn(s, {"_"}), Len(s)))
         ELSE <<Head(s)>> \o sub_underscores(Tail(s))

\* lines 139-141 of parse
normalize(vm) == sub_underscores(sub_nonword(lower(replace(replace(vm, " ", "_"), "-", "_"))))

---------------------------------------------------------------------------
(* _parse_virsh_domifaddr                                                  *)

IPV4 == <<"i","p","v","4">>

RECURSIVE _parse_virsh_domifaddr(_, _)
_parse_virsh_domifaddr(lines, interface_pattern) ==
    IF lines = <<>> THEN None
    ELSE LET line == Head(lines)
             splitted_line == split(line)
         IN  IF Contains(line, IPV4) /\ re_match(interface_pattern, splitted_line[1])
             THEN SplitFirst(splitted_line[Len(splitted_line)], "/")
             ELSE _parse_virsh_domifaddr(Tail(lines), interface_pattern)

---------------------------------------------------------------------------
(* Inputs: configuration files, outputs of the two remote commands.        *)

RECURSIVE JoinWith(_, _)
JoinWith(parts, sep) ==
    IF parts = <<>> THEN <<>>
    ELSE IF Len(parts) = 1 THEN Head(parts)
    ELSE Head(parts) \o sep \o JoinWith(Tail(parts), sep)

\* a table row as virsh prints it: a leading blank, blank-separated columns
Row(fields) == <<" ">> \o JoinWith(fields, <<" ", " ">>)

\* a text whose lines each end with a line feed
RECURSIVE Text(_)
Text(lines) ==
    IF lines = <<>> THEN <<>> ELSE Head(lines) \o <<"\n">> \o Text(Tail(lines))

\* the sequences without repetition of at most n elements of S
UniqSeqs(S, n) ==
    UNION { {q \in [1..m -> S] : \A a, b \in 1..m : a # b => q[a] # q[b]} : m \in 0..n }

\* the sequences of at most n elements of S
SeqsUpTo(S, n) == UNION { [1..m -> S] : m \in 0..n }

DefaultNamePattern == <<".", "*">>                        \* '.*'
DefaultInterfacePattern == <<"e", "n", "\\", "w", "+">>   \* 'en\w+'

Hostnames == {None, <<>>, <<"h">>}
Usernames == {None, <<>>, <<"u">>}
Passwords == {None, <<>>, <<"p">>}
NamePatterns == {None, <<"\\", "w", "+">>, <<"a">>}
InterfacePatterns == {None, <<"l", "o">>}
AnsibleUsers == {None, <<"r">>}

\* domain names are unique on a libvirt host; "virsh list --name" also
\* prints a blank line
VMNames == { <<"a", "-", "b">>, <<"a", " ", "b">>, <<"W", "1">>, <<"!">>, <<"?">> }
ListOutputs == { Text(ls) : ls \in UniqSeqs(VMNames \cup {<<>>}, MaxVMs) }

F_lo == <<"l", "o">>
F_en0 == <<"e", "n", "0">>
F_en1 == <<"e", "n", "1">>
F_dash == <<"-">>
F_ipv6 == <<"i", "p", "v", "6">>
F_mac == <<"5", "2", ":", "5", "4">>
HeaderRow == Row(<<<<"N","a","m","e">>, <<"M","A","C">>, <<"a","d","d","r","e","s","s">>,
                   <<"P","r","o","t","o","c","o","l">>, <<"A","d","d","r","e","s","s">>>>)
RuleRow == <<"-", "-", "-", "-">>
LoRow == Row(<<F_lo, <<"0","0",":","0","0">>, IPV4, <<"1","2","7",".","1","/","8">>>>)
Lo6Row == Row(<<F_dash, F_dash, F_ipv6, <<":",":","1","/","1","2","8">>>>)
En0Row == Row(<<F_en0, F_mac, IPV4, <<"1",".","1","/","2","4">>>>)
En1Row == Row(<<F_en1, F_mac, IPV4, <<"2",".","2","/","2","4">>>>)

\* outputs of "virsh domifaddr <vm> --source agent"
Reports == { Text(<<HeaderRow, RuleRow, LoRow, Lo6Row, En0Row, Lo6Row>>),
             Text(<<HeaderRow, RuleRow, En1Row>>),
             Text(<<HeaderRow, RuleRow, Lo6Row>>),
             <<>> }

\* rows handed to _parse_virsh_domifaddr on its own
ParserFields1 == {F_lo, F_en0, F_dash, <<"e","n","i","p","v","4">>}
ParserFields3 == {IPV4, F_ipv6}
ParserFields4 == {<<"1",".","1","/","2","4">>, <<":",":","1","/","6","4">>}
ParserRows ==
    { Row(<<a, F_mac, c, d>>) : a \in ParserFields1, c \in ParserFields3, d \in ParserFields4 }
    \cup { HeaderRow, RuleRow, <<>>, <<" ", " ">>,
           Row(<<F_en0, IPV4>>), Row(<<F_en0, F_mac, IPV4, <<"1",".","1","/","2","4">>, <<"x">>>>) }
ParserPatterns == {DefaultInterfacePattern, <<"l", "o">>}

---------------------------------------------------------------------------
(* self.inventory and the dict vms_ips                                     *)

\* vms_ips[vm] = ip: a new key goes last, an old key keeps its place
DictSet(d, vm, ip) ==
    IF \E j \in DOMAIN d : d[j].vm = vm
    THEN [j \in DOMAIN d |-> IF d[j].vm = vm THEN [vm |-> vm, ip |-> ip] ELSE d[j]]
    ELSE Append(d, [vm |-> vm, ip |-> ip])

\* inventory.set_variable(host, name, value)
set_variable(vs, host, name, value) ==
    {t \in vs : ~(t[1] = host /\ t[2] = name)} \cup {<<host, name, value>>}

UNRAID == "unraid"
ANSIBLE_HOST == "ansible_host"
ANSIBLE_USER == "ansible_user"

---------------------------------------------------------------------------
(* InventoryModule.parse                                                   *)

Init ==
    /\ pc = "start"
    /\ hostname = None /\ username = None /\ password = None
    /\ name_pattern = None /\ vm_interface_pattern = None /\ ansible_user = None
    /\ client = "none" /\ connect_called = FALSE
    /\ list_stdout = None
    /\ vms = <<>> /\ i = 0 /\ queried = <<>> /\ outcomes = <<>> /\ vms_ips = <<>>
    /\ k = 0
    /\ groups = {} /\ hosts = {} /\ variables = {} /\ add_host_args = <<>>
    /\ err = "none"
    /\ p_pc = "idle" /\ p_lines = <<>> /\ p_pattern = None /\ p_result = None

\* lines 66-69: import paramiko
ImportParamiko ==
    /\ pc = "start"
    /\ \/ pc' = "read_config" /\ err' = err
       \/ pc' = "error" /\ err' = "import"
    /\ UNCHANGED <<cfgVars, client, connect_called, list_stdout, loopVars, k,
                   invVars, parseVars>>

\* line 83 testing the host alone
RequiredPresent_hostOnly(h, u, p) == Truthy(h)

\* line 83: all([hostname, username, password])
RequiredPresent(h, u, p) == Truthy(h) /\ Truthy(u) /\ Truthy(p)

\* lines 76-85
ReadConfig ==
    /\ pc = "read_config"
    /\ \E h \in Hostnames, u \in Usernames, p \in Passwords,
          np \in NamePatterns, ip \in InterfacePatterns, au \in AnsibleUsers :
          /\ hostname' = h /\ username' = u /\ password' = p
          /\ name_pattern' = IF Truthy(np) THEN np ELSE DefaultNamePattern
          /\ vm_interface_pattern' = IF Truthy(ip) THEN ip ELSE DefaultInterfacePattern
          /\ ansible_user' = au
          /\ IF RequiredPresent(h, u, p)
             THEN pc' = "connect" /\ err' = err
             ELSE pc' = "error" /\ err' = "missing_parameters"
    /\ UNCHANGED <<client, connect_called, list_stdout, loopVars, k, invVars, parseVars>>

\* lines 88-93: client.connect either opens the session or raises
Connect ==
    /\ pc = "connect"
    /\ connect_called' = TRUE
    /\ \/ client' = "open" /\ pc' = "list" /\ err' = err
       \/ client' = client /\ pc' = "error" /\ err' = "connect"
    /\ UNCHANGED <<cfgVars, list_stdout, loopVars, k, invVars, parseVars>>

\* lines 96-103: the list command, its output split into lines
ListVMs ==
    /\ pc = "list"
    /\ \/ \E out \in ListOutputs :
             /\ list_stdout' = out
             /\ vms' = splitlines(out)
             /\ pc' = "filter" /\ err' = err
       \/ /\ pc' = "error" /\ err' = "list"
          /\ UNCHANGED <<list_stdout, vms>>
    /\ UNCHANGED <<cfgVars, client, connect_called, i, queried, outcomes, vms_ips, k,
                   invVars, parseVars>>

\* line 106
FilterByName(names, pattern) == SelectSeq(names, LAMBDA vm : re_match(pattern, vm))

\* lines 106-111: the filter, and the return when nothing is left
FilterVMs ==
    /\ pc = "filter"
    /\ vms' = FilterByName(vms, name_pattern)
    /\ IF vms' = <<>>
       THEN pc' = "done" /\ i' = i
       ELSE pc' = "query" /\ i' = 1
    /\ UNCHANGED <<cfgVars, client, connect_called, list_stdout, queried, outcomes,
                   vms_ips, k, invVars, err, parseVars>>

\* where the loop of line 116 goes after the iteration at position j
AfterQuery(j) == IF j + 1 > Len(vms) THEN "add_group" ELSE "query"

queryFrame == <<cfgVars, client, connect_called, list_stdout, vms, k, parseVars>>

\* lines 117-120 with a wrong handler: the failed VM is skipped
QueryExecRaises_skip ==
    /\ pc = "query" /\ i \in 1..Len(vms)
    /\ queried' = Append(queried, vms[i])
    /\ outcomes' = Append(outcomes, "exec_error")
    /\ pc' = AfterQuery(i) /\ i' = i + 1 /\ err' = err
    /\ UNCHANGED <<vms_ips, invVars, queryFrame>>

\* lines 117-120: exec_command raises, parse raises AnsibleError
QueryExecRaises ==
    /\ pc = "query" /\ i \in 1..Len(vms)
    /\ queried' = Append(queried, vms[i])
    /\ outcomes' = Append(outcomes, "exec_error")
    /\ pc' = "error" /\ err' = "query"
    /\ UNCHANGED <<i, vms_ips, invVars, queryFrame>>

\* lines 122-123, 130-132: stdout.read().decode() raises, the VM is skipped
QueryReadRaises ==
    /\ pc = "query" /\ i \in 1..Len(vms)
    /\ queried' = Append(queried, vms[i])
    /\ outcomes' = Append(outcomes, "parse_error")
    /\ pc' = AfterQuery(i) /\ i' = i + 1 /\ err' = err
    /\ UNCHANGED <<vms_ips, invVars, queryFrame>>

\* lines 122-129 without the test "if ip"
QueryReport_noTest(report) ==
    /\ pc = "query" /\ i \in 1..Len(vms)
    /\ queried' = Append(queried, vms[i])
    /\ LET lines == splitlines(report)
           ip == _parse_virsh_domifaddr(lines, vm_interface_pattern)
       IN  /\ vms_ips' = DictSet(vms_ips, vms[i], ip)
           /\ outcomes' = Append(outcomes, IF Truthy(ip) THEN "ip" ELSE "no_ip")
    /\ pc' = AfterQuery(i) /\ i' = i + 1 /\ err' = err
    /\ UNCHANGED <<invVars, queryFrame>>

\* lines 122-129 adding the host as soon as its address is known
QueryReport_eager(report) ==
    /\ pc = "query" /\ i \in 1..Len(vms)
    /\ queried' = Append(queried, vms[i])
    /\ LET lines == splitlines(report)
           ip == _parse_virsh_domifaddr(lines, vm_interface_pattern)
       IN  IF Truthy(ip)
           THEN /\ vms_ips' = DictSet(vms_ips, vms[i], ip)
                /\ outcomes' = Append(outcomes, "ip")
                /\ groups' = groups \cup {UNRAID}
                /\ hosts' = hosts \cup {normalize(vms[i])}
                /\ UNCHANGED <<variables, add_host_args>>
           ELSE /\ vms_ips' = vms_ips
                /\ outcomes' = Append(outcomes, "no_ip")
                /\ UNCHANGED invVars
    /\ pc' = AfterQuery(i) /\ i' = i + 1 /\ err' = err
    /\ UNCHANGED queryFrame

\* lines 122-129: the report is read and parsed
QueryReport(report) ==
    /\ pc = "query" /\ i \in 1..Len(vms)
    /\ queried' = Append(queried, vms[i])
    /\ LET lines == splitlines(report)
           ip == _parse_virsh_domifaddr(lines, vm_interface_pattern)
       IN  IF Truthy(ip)
           THEN /\ vms_ips' = DictSet(vms_ips, vms[i], ip)
                /\ outcomes' = Append(outcomes, "ip")
           ELSE /\ vms_ips' = vms_ips
                /\ outcomes' = Append(outcomes, "no_ip")
    /\ pc' = AfterQuery(i) /\ i' = i + 1 /\ err' = err
    /\ UNCHANGED <<invVars, queryFrame>>

\* lines 116-132: one iteration of "for vm in vms"
QueryVM ==
    \/ QueryExecRaises
    \/ QueryReadRaises
    \/ \E report \in Reports : QueryReport(report)

\* lines 136-137 without the test "if vms_ips"
AddGroup_always ==
    /\ pc = "add_group"
    /\ groups' = groups \cup {UNRAID}
    /\ k' = 1
    /\ pc' = IF vms_ips # <<>> THEN "add_host" ELSE "close"
    /\ UNCHANGED <<cfgVars, client, connect_called, list_stdout, loopVars, hosts,
                   variables, add_host_args, err, parseVars>>

\* lines 136-137
AddGroup ==
    /\ pc = "add_group"
    /\ groups' = IF vms_ips # <<>> THEN groups \cup {UNRAID} ELSE groups
    /\ k' = 1
    /\ pc' = IF vms_ips # <<>> THEN "add_host" ELSE "close"
    /\ UNCHANGED <<cfgVars, client, connect_called, list_stdout, loopVars, hosts,
                   variables, add_host_args, err, parseVars>>

\* lines 138-146: one iteration of "for vm, ip in vms_ips.items()".
\* InventoryData.add_host raises AnsibleError for an empty host name.
AddHost ==
    /\ pc = "add_host" /\ k \in 1..Len(vms_ips)
    /\ LET vm == normalize(vms_ips[k].vm)
           ip == vms_ips[k].ip
           with_host == set_variable(variables, vm, ANSIBLE_HOST, ip)
       IN  /\ add_host_args' = Append(add_host_args, vm)
           /\ IF vm = <<>>
              THEN /\ pc' = "error" /\ err' = "add_host"
                   /\ UNCHANGED <<hosts, variables, k>>
              ELSE /\ hosts' = hosts \cup {vm}
                   /\ variables' = IF Truthy(ansible_user)
                                   THEN set_variable(with_host, vm, ANSIBLE_USER, ansible_user)
                                   ELSE with_host
                   /\ k' = k + 1
                   /\ pc' = IF k + 1 > Len(vms_ips) THEN "close" ELSE "add_host"
                   /\ err' = err
    /\ UNCHANGED <<cfgVars, client, connect_called, list_stdout, loopVars, groups, parseVars>>

\* lines 148-149
Close ==
    /\ pc = "close"
    /\ client' = "closed"
    /\ pc' = "done"
    /\ UNCHANGED <<cfgVars, connect_called, list_stdout, loopVars, k, invVars, err, parseVars>>

Next ==
    \/ ImportParamiko
    \/ ReadConfig
    \/ Connect
    \/ ListVMs
    \/ FilterVMs
    \/ QueryVM
    \/ AddGroup
    \/ AddHost
    \/ Close

Spec == Init /\ [][Next]_vars

---------------------------------------------------------------------------
(* _parse_virsh_domifaddr called on its own, on every report of ParserRows *)

InitParse ==
    /\ pc = "start"
    /\ hostname = None /\ username = None /\ password = None
    /\ name_pattern = None /\ vm_interface_pattern = None /\ ansible_user = None
    /\ client = "none" /\ connect_called = FALSE
    /\ list_stdout = None
    /\ vms = <<>> /\ i = 0 /\ queried = <<>> /\ outcomes = <<>> /\ vms_ips = <<>>
    /\ k = 0
    /\ groups = {} /\ hosts = {} /\ variables = {} /\ add_host_args = <<>>
    /\ err = "none"
    /\ p_pc = "call"
    /\ p_lines \in SeqsUpTo(ParserRows, MaxLines)
    /\ p_pattern \in ParserPatterns
    /\ p_result = None

ParseCall ==
    /\ p_pc = "call"
    /\ p_result' = _parse_virsh_domifaddr(p_lines, p_pattern)
    /\ p_pc' = "returned"
    /\ UNCHANGED <<pc, cfgVars, client, connect_called, list_stdout, loopVars, k,
                   invVars, err, p_lines, p_pattern>>

NextParse == ParseCall

SpecParse == InitParse /\ [][NextParse]_vars

---------------------------------------------------------------------------
(* Properties                                                              *)

Absent(v) == v = None \/ v = <<>>

\* the raw names whose query ended with an address, in query order
ResolvedVMs ==
    LET idx == SelectSeq([j \in 1..Len(outcomes) |-> j], LAMBDA j : outcomes[j] = "ip")
    IN  [n \in DOMAIN idx |-> queried[idx[n]]]

InventoryUntouched ==
    groups = {} /\ hosts = {} /\ variables = {} /\ add_host_args = <<>>

\* parse has left the loop of line 116 by running it to its end
QueriesOver ==
    pc \in {"add_group", "add_host", "close"} \/ (pc = "done" /\ vms # <<>>)
       \/ (pc = "error" /\ err = "add_host")

\* parse has ended, by return or by exception
Ended == pc \in {"done", "error"}

\* C1: every run that opened the SSH session ends with the session closed,
\* whether it ends normally, by the early return or by a fatal error.
C1_SessionClosedAtEnd ==
    (Ended /\ client # "none") => client = "closed"

\* C2: a VM whose address command fails aborts the run at that VM (it is
\* not skipped, no later VM is queried); a VM whose output cannot be read or
\* has no matching line is only skipped, and the next VM is still queried.
C2_QueryFailureAbortsParseFailureSkips ==
    /\ Len(outcomes) = Len(queried)
    /\ queried = SubSeq(vms, 1, Len(queried))
    /\ \A j \in DOMAIN outcomes :
          /\ outcomes[j] = "exec_error" =>
                /\ pc = "error" /\ err = "query"
                /\ j = Len(queried)
                /\ \A e \in Range(vms_ips) : e.vm # queried[j]
          /\ outcomes[j] \in {"parse_error", "no_ip"} =>
                /\ \A e \in Range(vms_ips) : e.vm # queried[j]
                /\ j < Len(vms) => (Len(queried) > j \/ (pc = "query" /\ i = j + 1))
                /\ j = Len(queried) => err # "query"
    /\ err = "query" => (outcomes # <<>> /\ outcomes[Len(outcomes)] = "exec_error")
    /\ QueriesOver => queried = vms

C2_Witness ==
    /\ Len(outcomes) = 2
    /\ outcomes[1] \in {"parse_error", "no_ip"}
    /\ outcomes[2] = "exec_error"
    /\ pc = "error"

\* the address the selection rule of C3 picks: the 4th field, cut at "/", of
\* the first line whose 3rd field is ipv4 and whose 1st field matches
RECURSIVE SelectedByFields(_, _)
SelectedByFields(lines, pattern) ==
    IF lines = <<>> THEN None
    ELSE LET f == split(Head(lines))
         IN  IF Len(f) >= 4 /\ f[3] = IPV4 /\ re_match(pattern, f[1])
             THEN SplitFirst(f[4], "/")
             ELSE SelectedByFields(Tail(lines), pattern)

\* C3: _parse_virsh_domifaddr returns the 4th field, without its /prefix, of
\* the first line whose 3rd field equals ipv4 and whose 1st field matches the
\* interface pattern, and None when there is no such line.
C3_ParserSelectsByFields ==
    p_pc = "returned" => p_result = SelectedByFields(p_lines, p_pattern)

\* C4: the VM list used for the address queries is exactly the non-empty
\* lines of the list output whose start matches the name pattern, in order;
\* no query is issued for an empty name.
C4_FilteredListIsNonEmptyMatchingLines ==
    (pc \in {"query", "add_group", "add_host", "close", "done"}
        \/ (pc = "error" /\ err \in {"query", "add_host"}))
    => /\ vms = SelectSeq(splitlines(list_stdout),
                          LAMBDA l : l # <<>> /\ re_match(name_pattern, l))
       /\ \A j \in DOMAIN queried : queried[j] # <<>>

\* C5: every identifier passed to add_host is a non-empty string.
C5_IdentifierNeverEmpty ==
    \A j \in DOMAIN add_host_args : add_host_args[j] # <<>>

\* C6: every host is the normalized name of a VM whose query gave an
\* address, a VM without address adds no host, and each VM adds at most one.
C6_HostsComeFromResolvedVMs ==
    /\ Len(add_host_args) <= Len(ResolvedVMs)
    /\ \A j \in DOMAIN add_host_args : add_host_args[j] = normalize(ResolvedVMs[j])
    /\ hosts \subseteq Range(add_host_args)
    /\ Cardinality(hosts) <= Len(ResolvedVMs)
    /\ \A t \in variables : t[1] \in hosts
    /\ pc = "done" => hosts = Range(add_host_args) /\ Len(add_host_args) = Len(ResolvedVMs)

C6_Witness ==
    /\ pc = "done"
    /\ outcomes = <<"no_ip", "ip">>
    /\ Cardinality(hosts) = 1

C8_CollisionLastWriteWins ==
    (pc = "done" \/ (pc = "error" /\ err = "add_host")) =>
       \A a, b \in DOMAIN vms_ips :
          (a < b /\ normalize(vms_ips[a].vm) = normalize(vms_ips[b].vm)
             /\ vms_ips[a].vm # <<>> /\ vms_ips[b].vm # <<>>
             /\ \A c \in DOMAIN vms_ips :
                   c > b => normalize(vms_ips[c].vm) # normalize(vms_ips[b].vm))
          => /\ err = "none"
             /\ normalize(vms_ips[b].vm) \in hosts
             /\ {t \in variables : t[1] = normalize(vms_ips[b].vm) /\ t[2] = ANSIBLE_HOST}
                   = {<<normalize(vms_ips[b].vm), ANSIBLE_HOST, vms_ips[b].ip>>}

\* the statement of C8 for the identifiers that are not empty
CollisionLastWriteWinsNonEmpty ==
    pc = "done" =>
       \A a, b \in DOMAIN vms_ips :
          (a < b /\ normalize(vms_ips[a].vm) = normalize(vms_ips[b].vm)
             /\ normalize(vms_ips[b].vm) # <<>>
             /\ \A c \in DOMAIN vms_ips :
                   c > b => normalize(vms_ips[c].vm) # normalize(vms_ips[b].vm))
          => /\ err = "none"
             /\ normalize(vms_ips[b].vm) \in hosts
             /\ {t \in variables : t[1] = normalize(vms_ips[b].vm) /\ t[2] = ANSIBLE_HOST}
                   = {<<normalize(vms_ips[b].vm), ANSIBLE_HOST, vms_ips[b].ip>>}

CollisionReached ==
    /\ pc = "done" /\ Len(vms_ips) = 2
    /\ vms_ips[1].vm # vms_ips[2].vm
    /\ vms_ips[1].ip # vms_ips[2].ip
    /\ normalize(vms_ips[1].vm) = normalize(vms_ips[2].vm)

\* C9: when host, user or secret is absent or empty, the run aborts with an
\* error before any connection attempt: no connect, no remote command, no
\* inventory change.
C9_MissingParameterAbortsBeforeConnect ==
    (pc \notin {"start", "read_config"} /\ err # "import"
        /\ (Absent(hostname) \/ Absent(username) \/ Absent(password)))
    => /\ pc = "error" /\ err = "missing_parameters"
       /\ ~connect_called /\ client = "none"
       /\ list_stdout = None /\ queried = <<>>
       /\ InventoryUntouched

C9_Witness ==
    /\ pc = "error" /\ err = "missing_parameters"
    /\ hostname = <<"h">> /\ username = <<"u">> /\ password = None

\* C10: the inventory is changed only after every address query completed;
\* a run aborted by a connection, enumeration or address-query failure, even
\* after earlier VMs were resolved, leaves the inventory unchanged.
C10_NoPartialInventory ==
    /\ (pc = "error" /\ err \in {"connect", "list", "query"}) => InventoryUntouched
    /\ ~InventoryUntouched =>
          /\ queried = vms
          /\ i = Len(vms) + 1
          /\ \A j \in DOMAIN outcomes : outcomes[j] # "exec_error"

C10_Witness ==
    /\ pc = "error" /\ err = "query"
    /\ outcomes = <<"ip", "exec_error">>
    /\ vms_ips # <<>>
    /\ InventoryUntouched

====
